---- MODULE Spec2Model ----
(***************************************************************************)
(* Model of PromptBuilderService                                           *)
(* (src/NodeST/nodest/services/prompt-builder-service.ts).                 *)
(*                                                                         *)
(* JavaScript objects are records; an optional property that is absent is  *)
(* a field that is not in the record's DOMAIN.  Arrays are sequences; the  *)
(* code's 0-based indices are kept and shifted by one only where a         *)
(* sequence is indexed.                                                    *)
(***************************************************************************)
EXTENDS Integers, Sequences, FiniteSets, TLC

VARIABLES
    options,       \* the PromptBuilderOptions of the buildPrompt call
    messages,      \* the array buildPrompt returned
    inj,           \* arguments of a direct insertDEntriesToHistory call
    finalHistory,  \* the array insertDEntriesToHistory returned
    pc,            \* "ready" before the call, "built" / "inserted" after it,
                   \* "text" once the output is serialized
    calls,         \* number of buildPrompt calls completed
    rendered,      \* the string messagesToText returned
    returned,      \* the buildPrompt calls completed so far, in order: the
                   \* arguments of each and the array it returned
    created,       \* the entry createDEntry returned
    heap,          \* the arrays that exist, by reference: heap[r] is the
                   \* content of the array with reference r
    frame          \* the local variables of the buildPrompt call under way

vars == <<options, messages, inj, finalHistory, pc, calls, rendered,
          returned, created, heap, frame>>

----------------------------------------------------------------------------
(* Bounds of the checked input families *)

MaxHist == 3
MaxEntries == 2
MaxDepth == 2
MaxW == 3
MaxCalls == 2
MaxFrame == 3

(* maxHistoryLength = 15 when the option is absent *)
DefaultMaxHistoryLength == 15

----------------------------------------------------------------------------
(* JavaScript helpers *)

Has(obj, f) == f \in DOMAIN obj

Min(a, b) == IF a < b THEN a ELSE b

(* obj.f is truthy for a boolean flag *)
Flag(obj, f) == Has(obj, f) /\ obj[f] = TRUE

(* the properties of obj named in fields, as far as obj has them *)
Pick(obj, fields) == [f \in (DOMAIN obj \cap fields) |-> obj[f]]

(* Array.prototype.slice(start) for any integer start *)
Slice(arr, start) ==
    LET n == Len(arr)
        from == IF start < 0 THEN (IF n + start < 0 THEN 0 ELSE n + start)
                ELSE Min(start, n)
    IN SubSeq(arr, from + 1, n)

(* Array.prototype.splice(index, 0, item) with index >= 0 *)
Splice(arr, index, item) ==
    LET at == Min(index, Len(arr))
    IN SubSeq(arr, 1, at) \o <<item>> \o SubSeq(arr, at + 1, Len(arr))

(* Array.prototype.reverse on a copy *)
Reverse(arr) == [i \in 1..Len(arr) |-> arr[Len(arr) + 1 - i]]

(* Array.prototype.findIndex, given the set of the 1-based positions whose
   element passes the test: 0-based index of the first match, else -1 *)
FindIndex(hits) ==
    IF hits = {} THEN -1
    ELSE (CHOOSE i \in hits : \A j \in hits : i <= j) - 1

(* entry.role || "user" *)
RoleOrUser(entry) ==
    IF Has(entry, "role") /\ entry.role # "" THEN entry.role ELSE "user"

(* msg.parts?.[0]?.text === text *)
FirstTextIs(msg, text) ==
    Has(msg, "parts") /\ Len(msg.parts) > 0 /\ Has(msg.parts[1], "text")
        /\ msg.parts[1].text = text

----------------------------------------------------------------------------
(* processHistory *)

(* slip: user kept, every other role folded to model *)
ProcessMessage_othersToModel(msg) ==
    [role |-> IF msg.role = "user" THEN "user" ELSE "model",
     parts |-> IF Has(msg, "parts") THEN msg.parts ELSE <<[text |-> ""]>>]
    @@ Pick(msg, {"timestamp"})

ProcessMessage(msg) ==
    [role |-> IF msg.role = "assistant" \/ msg.role = "model"
              THEN "model" ELSE "user",
     parts |-> IF Has(msg, "parts") THEN msg.parts ELSE <<[text |-> ""]>>]
    @@ Pick(msg, {"timestamp"})

IsNotDEntry(msg) == ~Flag(msg, "is_d_entry")

(* map to the standard shape or null, then filter(Boolean) *)
ProcessHistory(history) ==
    LET kept == SelectSeq(history, IsNotDEntry)
    IN [i \in 1..Len(kept) |-> ProcessMessage(kept[i])]

----------------------------------------------------------------------------
(* insertDEntriesToHistory *)

(* slip: findIndex on the array itself, the first match from the start *)
BaseMessageIndex_fromStart(chatMessages, baseMessage) ==
    LET hits == {i \in 1..Len(chatMessages) :
                    chatMessages[i].role = "user"
                        /\ FirstTextIs(chatMessages[i], baseMessage)}
    IN FindIndex(hits)

(* step 2: chatMessages.length - 1 - reversed.findIndex(...) *)
BaseMessageIndex(chatMessages, baseMessage) ==
    LET reversed == Reverse(chatMessages)
        hits == {i \in 1..Len(reversed) :
                    reversed[i].role = "user"
                        /\ FirstTextIs(reversed[i], baseMessage)}
    IN Len(chatMessages) - 1 - FindIndex(hits)

EffectiveBaseIndex(chatMessages, baseMessage) ==
    LET baseMessageIndex == BaseMessageIndex(chatMessages, baseMessage)
    IN IF baseMessageIndex # -1 THEN baseMessageIndex
       ELSE Len(chatMessages) - 1

(* step 3: entry.depth || 0 *)
DepthKey(entry) ==
    IF Has(entry, "depth") /\ entry.depth # 0 THEN entry.depth ELSE 0

IsPosition4(entry) == ~Has(entry, "position") \/ entry.position = 4

DepthTurn(entry) ==
    [role |-> RoleOrUser(entry),
     parts |-> <<[text |-> entry.content]>>,
     is_d_entry |-> TRUE]
    @@ Pick(entry, {"depth", "constant", "identifier", "name"})

(* position4Entries[depth], the empty sequence when the key is absent *)
Position4Entries(dEntries, depth) ==
    LET InGroup(entry) == IsPosition4(entry) /\ DepthKey(entry) = depth
        group == SelectSeq(dEntries, InGroup)
    IN [i \in 1..Len(group) |-> DepthTurn(group[i])]

(* step 4 *)
IsOtherPosition(entry) == Has(entry, "position") /\ entry.position # 4

OtherTurn(entry) ==
    [role |-> RoleOrUser(entry),
     parts |-> <<[text |-> entry.content]>>,
     is_d_entry |-> TRUE]
    @@ Pick(entry, {"position", "constant", "identifier", "name"})

OtherPositionEntries(dEntries) ==
    LET others == SelectSeq(dEntries, IsOtherPosition)
    IN [i \in 1..Len(others) |-> OtherTurn(others[i])]

(* step 5.1 *)
(* slip: the distance counted forward from the reference *)
DepthFromBase_forward(effectiveBaseIndex, i) == i - effectiveBaseIndex

(* slip: the distance counted from the turn before the reference *)
DepthFromBase_offByOne(effectiveBaseIndex, i) == effectiveBaseIndex - i - 1

DepthFromBase(effectiveBaseIndex, i) == effectiveBaseIndex - i

RECURSIVE DepthLoop(_, _, _, _, _)
DepthLoop(chatMessages, dEntries, effectiveBaseIndex, i, acc) ==
    IF i >= Len(chatMessages) THEN acc
    ELSE LET msg == chatMessages[i + 1]
             before == Position4Entries(dEntries,
                           DepthFromBase(effectiveBaseIndex, i))
             zero == Position4Entries(dEntries, 0)
             withMsg == Append(acc \o before, msg)
             after == IF i = effectiveBaseIndex THEN withMsg \o zero
                      ELSE withMsg
         IN DepthLoop(chatMessages, dEntries, effectiveBaseIndex, i + 1, after)

(* slip: the walk over the turns starts at index 1 *)
DepthInjected_fromSecond(chatMessages, dEntries, baseMessage) ==
    DepthLoop(chatMessages, dEntries,
              EffectiveBaseIndex(chatMessages, baseMessage), 1, <<>>)

DepthInjected(chatMessages, dEntries, baseMessage) ==
    DepthLoop(chatMessages, dEntries,
              EffectiveBaseIndex(chatMessages, baseMessage), 0, <<>>)

(* step 5.2 *)
IsAuthorNote(msg) == Flag(msg, "is_author_note")

RECURSIVE InsertBefore(_, _, _, _)
InsertBefore(hist, authorNoteIndex, items, i) ==
    IF i < 0 THEN hist
    ELSE InsertBefore(Splice(hist, authorNoteIndex, items[i + 1]),
                      authorNoteIndex, items, i - 1)

RECURSIVE InsertAfter(_, _, _, _)
InsertAfter(hist, authorNoteIndex, items, i) ==
    IF i >= Len(items) THEN hist
    ELSE InsertAfter(Splice(hist, authorNoteIndex + 1 + i, items[i + 1]),
                     authorNoteIndex, items, i + 1)

(* slip: without an author note the fixed-position items go to the end *)
AnchorPass_appendWhenMissing(hist, otherPositionEntries) ==
    LET authorNoteIndex ==
            FindIndex({i \in 1..Len(hist) : IsAuthorNote(hist[i])})
        IsPos2(e) == e.position = 2
        IsPos3(e) == e.position = 3
        position2Items == SelectSeq(otherPositionEntries, IsPos2)
        position3Items == SelectSeq(otherPositionEntries, IsPos3)
    IN IF authorNoteIndex # -1
       THEN InsertAfter(
                InsertBefore(hist, authorNoteIndex, position2Items,
                             Len(position2Items) - 1),
                authorNoteIndex, position3Items, 0)
       ELSE hist \o position2Items \o position3Items

AnchorPass(hist, otherPositionEntries) ==
    LET authorNoteIndex ==
            FindIndex({i \in 1..Len(hist) : IsAuthorNote(hist[i])})
        IsPos2(e) == e.position = 2
        IsPos3(e) == e.position = 3
        position2Items == SelectSeq(otherPositionEntries, IsPos2)
        position3Items == SelectSeq(otherPositionEntries, IsPos3)
    IN IF authorNoteIndex # -1
       THEN InsertAfter(
                InsertBefore(hist, authorNoteIndex, position2Items,
                             Len(position2Items) - 1),
                authorNoteIndex, position3Items, 0)
       ELSE hist

(* slip: with an empty history the pending entries are returned as turns *)
InsertDEntriesToHistory_fabricate(history, dEntries, baseMessage) ==
    IF Len(dEntries) = 0 THEN history
    ELSE IF Len(history) = 0
    THEN [i \in 1..Len(dEntries) |-> DepthTurn(dEntries[i])]
    ELSE LET chatMessages == SelectSeq(history, IsNotDEntry)
         IN AnchorPass(DepthInjected(chatMessages, dEntries, baseMessage),
                       OtherPositionEntries(dEntries))

InsertDEntriesToHistory(history, dEntries, baseMessage) ==
    IF Len(dEntries) = 0 \/ Len(history) = 0 THEN history
    ELSE LET chatMessages == SelectSeq(history, IsNotDEntry)
         IN AnchorPass(DepthInjected(chatMessages, dEntries, baseMessage),
                       OtherPositionEntries(dEntries))

----------------------------------------------------------------------------
(* buildPrompt *)

OptDEntries(o) == IF Has(o, "dEntries") THEN o.dEntries ELSE <<>>

OptChatHistory(o) == IF Has(o, "chatHistory") THEN o.chatHistory ELSE <<>>

OptMaxHistoryLength(o) ==
    IF Has(o, "maxHistoryLength") THEN o.maxHistoryLength
    ELSE DefaultMaxHistoryLength

(* slip: userMessage !== undefined in place of the truthiness test *)
UserMessageGiven_defined(o) == Has(o, "userMessage")

(* userMessage is truthy: present and not the empty string *)
UserMessageGiven(o) == Has(o, "userMessage") /\ o.userMessage # ""

(* userMessage || '' *)
BaseMessageOf(o) == IF UserMessageGiven(o) THEN o.userMessage ELSE ""

(* slip: the identifier not copied to the block *)
FrameworkBlock_noIdentifier(entry) ==
    IF Flag(entry, "isChatHistory")
    THEN [name |-> entry.name,
          role |-> IF Has(entry, "role") /\ entry.role # ""
                   THEN entry.role ELSE "system",
          parts |-> <<>>]
    ELSE [name |-> entry.name,
          role |-> RoleOrUser(entry),
          parts |-> <<[text |-> entry.content]>>]

(* step 1.1: one block per framework entry *)
FrameworkBlock(entry) ==
    IF Flag(entry, "isChatHistory")
    THEN [name |-> entry.name,
          role |-> IF Has(entry, "role") /\ entry.role # ""
                   THEN entry.role ELSE "system",
          parts |-> <<>>] @@ Pick(entry, {"identifier"})
    ELSE [name |-> entry.name,
          role |-> RoleOrUser(entry),
          parts |-> <<[text |-> entry.content]>>] @@ Pick(entry, {"identifier"})

(* the forEach of step 1.1: every slot entry overwrites chatHistoryIndex *)
RECURSIVE FrameworkLoop(_, _, _, _)
FrameworkLoop(rFramework, index, msgs, chatHistoryIndex) ==
    IF index >= Len(rFramework)
    THEN [messages |-> msgs, chatHistoryIndex |-> chatHistoryIndex]
    ELSE LET entry == rFramework[index + 1]
         IN FrameworkLoop(rFramework, index + 1,
                Append(msgs, FrameworkBlock(entry)),
                IF Flag(entry, "isChatHistory") THEN Len(msgs)
                ELSE chatHistoryIndex)

(* slip: the appended slot named after its identifier *)
SynthesizedSlot_identifierAsName ==
    [name |-> "chatHistory", role |-> "system", parts |-> <<>>,
     identifier |-> "chatHistory"]

SynthesizedSlot ==
    [name |-> "Chat History", role |-> "system", parts |-> <<>>,
     identifier |-> "chatHistory"]

(* slip: the fallback slot appended whether or not there is a conversation *)
Shell_alwaysSlot(o) ==
    LET fw == FrameworkLoop(o.rFramework, 0, <<>>, -1)
    IN IF fw.chatHistoryIndex = -1
       THEN [messages |-> Append(fw.messages, SynthesizedSlot),
             chatHistoryIndex |-> Len(fw.messages)]
       ELSE fw

(* slip: the messages array kept between calls instead of created by each *)
Shell_shared(o) ==
    LET fw == FrameworkLoop(o.rFramework, 0, messages, -1)
    IN IF fw.chatHistoryIndex = -1
          /\ (Len(OptChatHistory(o)) > 0 \/ UserMessageGiven(o))
       THEN [messages |-> Append(fw.messages, SynthesizedSlot),
             chatHistoryIndex |-> Len(fw.messages)]
       ELSE fw

(* messages and chatHistoryIndex before step 2 *)
Shell(o) ==
    LET fw == FrameworkLoop(o.rFramework, 0, <<>>, -1)
    IN IF fw.chatHistoryIndex = -1
          /\ (Len(OptChatHistory(o)) > 0 \/ UserMessageGiven(o))
       THEN [messages |-> Append(fw.messages, SynthesizedSlot),
             chatHistoryIndex |-> Len(fw.messages)]
       ELSE fw

ChatHistoryIndex(o) == Shell(o).chatHistoryIndex

(* slip: slice(maxHistoryLength), the sign lost *)
TrimmedHistory_head(o) == Slice(OptChatHistory(o), OptMaxHistoryLength(o))

(* chatHistory.slice(-maxHistoryLength) *)
TrimmedHistory(o) == Slice(OptChatHistory(o), 0 - OptMaxHistoryLength(o))

(* processedHistory, the new user message appended *)
ProcessedHistory(o) ==
    LET processed == ProcessHistory(TrimmedHistory(o))
    IN IF UserMessageGiven(o)
       THEN Append(processed,
                [role |-> "user", parts |-> <<[text |-> o.userMessage]>>])
       ELSE processed

HistoryWithDEntries(o) ==
    InsertDEntriesToHistory(ProcessedHistory(o), OptDEntries(o),
                            BaseMessageOf(o))

BuildPrompt(o) ==
    LET shell == Shell(o)
    IN IF shell.chatHistoryIndex # -1
       THEN [shell.messages EXCEPT
                ![shell.chatHistoryIndex + 1].parts = HistoryWithDEntries(o)]
       ELSE shell.messages

----------------------------------------------------------------------------
(* buildPrompt statement by statement, on a heap of arrays.

   An array is a cell of the heap and a variable holds its reference, so that
   two variables may name one array and a push or a splice through either is
   seen through both.  slice, filter and map make a new cell; push, splice
   and an indexed assignment write the cell they are applied to.  The
   elements are kept by value: the only assignment to a property of an
   element is line 119, on a block the call itself pushed.

   The caller's three arrays are the cells 1, 2 and 3. *)

CallerHeap(o) == <<o.rFramework, OptDEntries(o), OptChatHistory(o)>>

NoFrame ==
    [args |-> <<>>, messages |-> 0, chatHistoryIndex |-> -1,
     trimmedHistory |-> 0, processedHistory |-> 0, historyWithDEntries |-> 0]

(* slip: messages kept in a static field, made once and pushed to by every
   call *)
EnterStep_staticMessages(hp, prev, o) ==
    IF prev.messages # 0
    THEN [heap |-> hp,
          frame |-> [NoFrame EXCEPT
                        !.args = [rFramework |-> 1, dEntries |-> 2,
                                  chatHistory |-> 3]
                                 @@ Pick(o, {"userMessage",
                                             "maxHistoryLength"}),
                        !.messages = prev.messages]]
    ELSE [heap |-> Append(hp, <<>>),
          frame |-> [NoFrame EXCEPT
                        !.args = [rFramework |-> 1, dEntries |-> 2,
                                  chatHistory |-> 3]
                                 @@ Pick(o, {"userMessage",
                                             "maxHistoryLength"}),
                        !.messages = Len(hp) + 1]]

(* lines 49-59: the parameters are bound, messages is a new empty array and
   chatHistoryIndex is -1; nothing of the previous call's frame is kept *)
EnterStep(hp, prev, o) ==
    [heap |-> Append(hp, <<>>),
     frame |-> [NoFrame EXCEPT
                   !.args = [rFramework |-> 1, dEntries |-> 2,
                             chatHistory |-> 3]
                            @@ Pick(o, {"userMessage", "maxHistoryLength"}),
                   !.messages = Len(hp) + 1]]

(* lines 62-92: the forEach pushes one block per entry to messages, then the
   fallback slot is pushed *)
FrameworkStep(mach) ==
    LET hp == mach.heap
        fr == mach.frame
        fw == FrameworkLoop(hp[fr.args.rFramework], 0, hp[fr.messages],
                            fr.chatHistoryIndex)
        synthesize ==
            /\ fw.chatHistoryIndex = -1
            /\ (Len(hp[fr.args.chatHistory]) > 0 \/ UserMessageGiven(fr.args))
    IN [heap |-> [hp EXCEPT ![fr.messages] =
                     IF synthesize THEN Append(fw.messages, SynthesizedSlot)
                     ELSE fw.messages],
        frame |-> [fr EXCEPT !.chatHistoryIndex =
                      IF synthesize THEN Len(fw.messages)
                      ELSE fw.chatHistoryIndex]]

(* line 98: slice makes a new array *)
TrimStep(mach) ==
    LET hp == mach.heap
        fr == mach.frame
    IN [heap |-> Append(hp, Slice(hp[fr.args.chatHistory],
                                  0 - OptMaxHistoryLength(fr.args))),
        frame |-> [fr EXCEPT !.trimmedHistory = Len(hp) + 1]]

(* line 101: filter().map() of processHistory makes a new array of new
   objects *)
ProcessStep(mach) ==
    LET hp == mach.heap
        fr == mach.frame
    IN [heap |-> Append(hp, ProcessHistory(hp[fr.trimmedHistory])),
        frame |-> [fr EXCEPT !.processedHistory = Len(hp) + 1]]

(* slip: the new message pushed to the caller's list *)
PushTarget_chatHistory(fr) == fr.args.chatHistory

(* line 105: the array the new user message is pushed to *)
PushTarget(fr) == fr.processedHistory

(* lines 104-109: push writes the array it is applied to *)
PushStep(mach) ==
    LET hp == mach.heap
        fr == mach.frame
    IN IF UserMessageGiven(fr.args)
       THEN [heap |-> [hp EXCEPT ![PushTarget(fr)] =
                          Append(@, [role |-> "user",
                                     parts |-> <<[text |->
                                                  fr.args.userMessage]>>])],
             frame |-> fr]
       ELSE mach

(* lines 112-116, insertDEntriesToHistory on processedHistory: the early
   return hands back the array it was given; otherwise chatMessages (filter)
   and finalHistory ([]) are new arrays and every push and splice is on
   finalHistory *)
InjectStep(mach) ==
    LET hp == mach.heap
        fr == mach.frame
        history == hp[fr.processedHistory]
        dEntries == hp[fr.args.dEntries]
    IN IF Len(dEntries) = 0 \/ Len(history) = 0
       THEN [heap |-> hp,
             frame |-> [fr EXCEPT !.historyWithDEntries = fr.processedHistory]]
       ELSE LET chatMessages == SelectSeq(history, IsNotDEntry)
                finalHistory0 ==
                    AnchorPass(DepthInjected(chatMessages, dEntries,
                                             BaseMessageOf(fr.args)),
                               OtherPositionEntries(dEntries))
            IN [heap |-> hp \o <<chatMessages, finalHistory0>>,
                frame |-> [fr EXCEPT !.historyWithDEntries = Len(hp) + 2]]

(* line 119: the slot block's parts is made to name the injected history *)
FillStep(mach) ==
    LET hp == mach.heap
        fr == mach.frame
    IN [heap |-> [hp EXCEPT ![fr.messages][fr.chatHistoryIndex + 1].parts =
                     hp[fr.historyWithDEntries]],
        frame |-> fr]

(* the whole call, from a heap and the frame the previous call left *)
RunCall(hp, prev, o) ==
    LET shell == FrameworkStep(EnterStep(hp, prev, o))
    IN IF shell.frame.chatHistoryIndex = -1 THEN shell
       ELSE FillStep(InjectStep(PushStep(ProcessStep(TrimStep(shell)))))

(* the caller's options object once the call has returned: what the cells
   1, 2 and 3 then hold *)
ArgumentsAfter(o) ==
    LET after == RunCall(CallerHeap(o), NoFrame, o).heap
        arrays == [rFramework |-> after[1], dEntries |-> after[2],
                   chatHistory |-> after[3]]
    IN [fld \in DOMAIN o |->
           IF fld \in DOMAIN arrays THEN arrays[fld] ELSE o[fld]]

----------------------------------------------------------------------------
(* createDEntry: each default is written with ||, which takes the default
   for every falsy value of the field (undefined, 0, false, ''), not only
   for an absent one *)

CreateDEntry(o) ==
    [name |-> o.name,
     content |-> o.content,
     role |-> IF Has(o, "role") /\ o.role # "" THEN o.role ELSE "user",
     position |-> IF Has(o, "position") /\ o.position # 0
                  THEN o.position ELSE 4,
     depth |-> IF Has(o, "depth") /\ o.depth # 0 THEN o.depth ELSE 1,
     constant |-> IF Has(o, "constant") /\ o.constant THEN o.constant
                  ELSE TRUE,
     key |-> IF Has(o, "key") THEN o.key ELSE <<>>]
    @@ Pick(o, {"identifier"})

----------------------------------------------------------------------------
(* messagesToText *)

(* String.prototype.trim strips the WhiteSpace and LineTerminator characters
   of ECMAScript: codes 9, 10, 11, 12, 13, 32, 160, 5760, 8192-8202, 8232,
   8233, 8239, 8287, 12288 and 65279.  The four below are written as the
   character itself, there being no escape for them; the codes 8192-8202,
   8232, 8233, 8239, 8287 and 12288 cannot be written in a string of this
   module, so no string here holds one. *)
VerticalTab == ""
NoBreakSpace == " "
OghamSpaceMark == " "
ByteOrderMark == "﻿"

WhitespaceChars ==
    {" ", "\n", "\t", "\r", "\f",
     VerticalTab, NoBreakSpace, OghamSpaceMark, ByteOrderMark}

(* text.trim() === '' *)
IsBlank(str) == \A i \in 1..Len(str) : SubSeq(str, i, i) \in WhitespaceChars

(* Array.prototype.join over an array of strings *)
RECURSIVE Join(_, _)
Join(strs, sep) ==
    IF Len(strs) = 0 THEN ""
    ELSE IF Len(strs) = 1 THEN strs[1]
    ELSE strs[1] \o sep \o Join(Tail(strs), sep)

(* part.text || "" *)
PartText(part) == IF Has(part, "text") THEN part.text ELSE ""

(* the map callback.  parts is an array whenever the property is present, so
   the first branch is taken; the second branch needs a parts value that is
   not an array and the third repeats the Array.isArray test that the first
   branch already decided, so without parts the callback returns '' *)
RenderBlock(msg) ==
    IF Has(msg, "parts")
    THEN Join([i \in 1..Len(msg.parts) |-> PartText(msg.parts[i])], "\n")
    ELSE ""

IsNotBlank(str) == ~IsBlank(str)

(* slip: the blocks joined by a single newline *)
MessagesToText_singleNewline(msgs) ==
    Join(SelectSeq([i \in 1..Len(msgs) |-> RenderBlock(msgs[i])], IsNotBlank),
         "\n")

MessagesToText(msgs) ==
    Join(SelectSeq([i \in 1..Len(msgs) |-> RenderBlock(msgs[i])], IsNotBlank),
         "\n\n")

----------------------------------------------------------------------------
(* Input families *)

BSeq(S, n) == UNION {[1..k -> S] : k \in 0..n}

Turn(role, text) == [role |-> role, parts |-> <<[text |-> text]>>]

PlainTurns ==
    {Turn("user", "a"),
     Turn("assistant", "b") @@ [timestamp |-> 1],
     Turn("model", "a")}

(* a turn left in the transcript by an earlier injection *)
StaleAnnotation ==
    Turn("user", "old") @@ [is_d_entry |-> TRUE, depth |-> 1, name |-> "old"]

AnchorTurn == Turn("assistant", "note") @@ [is_author_note |-> TRUE]

DepthEntry(d) ==
    [name |-> ToString(d), content |-> ToString(d), position |-> 4,
     depth |-> d]

DepthEntries ==
    {DepthEntry(d) : d \in 0..MaxDepth}
    \cup {[name |-> "p", content |-> "p", depth |-> 1, role |-> "model",
           identifier |-> "p", constant |-> TRUE],
          [name |-> "q", content |-> "q", position |-> 4]}

Pos2Entry(n) == [name |-> n, content |-> n, position |-> 2]
Pos3Entry(n) == [name |-> n, content |-> n, position |-> 3]

SysEntry == [name |-> "sys", content |-> "instructions", role |-> "system"]
(* createChatHistoryContainer(identifier = "chatHistory") *)
CreateChatHistoryContainer(identifier) ==
    [name |-> "Chat History", content |-> "", role |-> "system",
     identifier |-> identifier, isChatHistory |-> TRUE]

SlotEntry == CreateChatHistoryContainer("chatHistory")

(* the options objects over the given inputs; "none" leaves the option out *)
OptionsOver(Fs, Hs, Ds, Ms, Ws) ==
    {[rFramework |-> f, chatHistory |-> h, dEntries |-> d]
        @@ m @@ w : f \in Fs, h \in Hs, d \in Ds, m \in Ms, w \in Ws}

NoOption == [f \in {} |-> 0]
Message(text) == [userMessage |-> text]
Window(n) == [maxHistoryLength |-> n]

----------------------------------------------------------------------------
(* State machine: a caller prepares the arguments, the call returns *)

NoCall == [history |-> <<>>, dEntries |-> <<>>, baseMessage |-> ""]

InitBuild(Os) ==
    /\ options \in Os
    /\ messages = <<>>
    /\ inj = NoCall
    /\ finalHistory = <<>>
    /\ pc = "ready"
    /\ calls = 0
    /\ rendered = ""
    /\ returned = <<>>
    /\ created = NoOption
    /\ heap = <<>>
    /\ frame = NoFrame

Build ==
    /\ pc = "ready"
    /\ messages' = BuildPrompt(options)
    /\ options' = ArgumentsAfter(options)
    /\ returned' = Append(returned, [options |-> options,
                                     messages |-> messages'])
    /\ pc' = "built"
    /\ calls' = calls + 1
    /\ UNCHANGED <<inj, finalHistory, rendered, created, heap, frame>>

(* depth placement: plain histories, position-4 entries *)
DepthOptions ==
    OptionsOver({<<SysEntry, SlotEntry>>},
                BSeq(PlainTurns, MaxHist),
                BSeq(DepthEntries, MaxEntries),
                {NoOption, Message(""), Message("a")},
                {NoOption})

InitDepth == InitBuild(DepthOptions)
NextBuild == Build
SpecDepth == InitDepth /\ [][NextBuild]_vars

(* windowing: transcripts that hold stale annotation turns, small windows *)
WindowTurns == {Turn("user", "a"),
                Turn("assistant", "b") @@ [timestamp |-> 1],
                Turn("model", "c"),
                [role |-> "system"],
                StaleAnnotation}

WindowOptions ==
    OptionsOver({<<SysEntry, SlotEntry>>},
                BSeq(WindowTurns, MaxHist),
                {<<>>, <<DepthEntry(1)>>, <<DepthEntry(0), DepthEntry(1)>>},
                {NoOption, Message("a")},
                {NoOption} \cup {Window(n) : n \in 1..MaxW})

InitWindow == InitBuild(WindowOptions)
SpecWindow == InitWindow /\ [][NextBuild]_vars

(* anchor-relative entries through buildPrompt: a marked turn in the
   transcript *)
AnchorOptions ==
    OptionsOver({<<SysEntry, SlotEntry>>},
                BSeq({Turn("user", "a"), Turn("assistant", "b"), AnchorTurn},
                     MaxHist),
                BSeq({Pos2Entry("x"), Pos3Entry("u"), DepthEntry(1),
                      [name |-> "bad", content |-> "bad", position |-> 5]},
                     MaxEntries),
                {NoOption, Message("a")},
                {NoOption})

InitAnchor == InitBuild(AnchorOptions)
SpecAnchor == InitAnchor /\ [][NextBuild]_vars

(* insertDEntriesToHistory called on its own *)
InjectTurns == {Turn("user", "a"), Turn("model", "b"),
                Turn("model", "note") @@ [is_author_note |-> TRUE],
                StaleAnnotation}

InjectEntries == {Pos2Entry("x"), Pos2Entry("y"), Pos3Entry("u"),
                  Pos3Entry("v"), DepthEntry(1)}

InitInject ==
    /\ inj \in [history : BSeq(InjectTurns, MaxHist),
                dEntries : BSeq(InjectEntries, MaxEntries),
                baseMessage : {"", "a"}]
    /\ finalHistory = <<>>
    /\ options = [rFramework |-> <<>>]
    /\ messages = <<>>
    /\ pc = "ready"
    /\ calls = 0
    /\ rendered = ""
    /\ returned = <<>>
    /\ created = NoOption
    /\ heap = <<>>
    /\ frame = NoFrame

Insert ==
    /\ pc = "ready"
    /\ finalHistory' =
          InsertDEntriesToHistory(inj.history, inj.dEntries, inj.baseMessage)
    /\ pc' = "inserted"
    /\ UNCHANGED <<options, messages, inj, calls, rendered, returned, created,
                   heap, frame>>

NextInsert == Insert
SpecInject == InitInject /\ [][NextInsert]_vars

(* framework shapes: none, one or several slot entries *)
FrameEntries ==
    {SysEntry,
     SlotEntry,
     [name |-> "h2", content |-> "", isChatHistory |-> TRUE],
     [name |-> "blank", content |-> " " \o VerticalTab \o NoBreakSpace,
      identifier |-> "b"]}

FrameOptions ==
    OptionsOver(BSeq(FrameEntries, MaxFrame),
                BSeq({Turn("user", "a"), Turn("assistant", "b")}, 1),
                {<<>>, <<DepthEntry(1)>>},
                {NoOption, Message(""), Message("a")},
                {NoOption})

InitFrame == InitBuild(FrameOptions)
SpecFrame == InitFrame /\ [][NextBuild]_vars

(* the worked example and its neighbours: a greeting exchange, a reminder at
   some depth, a new message *)
Reminder(d) == [name |-> "reminder", content |-> "reminder", depth |-> d]

FixtureOptions ==
    OptionsOver({<<SysEntry, SlotEntry>>},
                BSeq({Turn("user", "hi"), Turn("model", "hello")}, MaxHist),
                {<<>>} \cup {<<Reminder(d)>> : d \in 0..MaxDepth},
                {NoOption, Message("how are you")},
                {NoOption})

InitFixture == InitBuild(FixtureOptions)
SpecFixture == InitFixture /\ [][NextBuild]_vars

(* entries of the reserved positions and of negative depth, next to a
   placeable one; transcripts that may hold a user turn with empty text and
   a marked turn *)
ReservedEntries ==
    {[name |-> "zero", content |-> "zero", position |-> 0],
     [name |-> "one", content |-> "one", position |-> 1, depth |-> 1],
     [name |-> "neg", content |-> "neg", position |-> 4, depth |-> -1],
     DepthEntry(1)}

ReservedOptions ==
    OptionsOver({<<SysEntry, SlotEntry>>},
                BSeq({Turn("user", ""), Turn("user", "a"),
                      Turn("model", "b"), AnchorTurn}, MaxHist),
                BSeq(ReservedEntries, MaxEntries),
                {NoOption, Message("a")},
                {NoOption})

InitReserved == InitBuild(ReservedOptions)
SpecReserved == InitReserved /\ [][NextBuild]_vars

(* createDEntry called on its own: every optional field absent or given *)
EntryOptions ==
    {[name |-> "n", content |-> "c"] @@ r @@ p @@ d @@ c :
        r \in {NoOption, [role |-> "user"], [role |-> "model"]},
        p \in {NoOption} \cup {[position |-> n] : n \in 0..4},
        d \in {NoOption} \cup {[depth |-> n] : n \in 0..MaxDepth},
        c \in {NoOption, [constant |-> TRUE], [constant |-> FALSE]}}

InitCreate ==
    /\ options \in EntryOptions
    /\ created = NoOption
    /\ messages = <<>>
    /\ inj = NoCall
    /\ finalHistory = <<>>
    /\ pc = "ready"
    /\ calls = 0
    /\ rendered = ""
    /\ returned = <<>>
    /\ heap = <<>>
    /\ frame = NoFrame

Create ==
    /\ pc = "ready"
    /\ created' = CreateDEntry(options)
    /\ pc' = "created"
    /\ UNCHANGED <<options, messages, inj, finalHistory, calls, rendered,
                   returned, heap, frame>>

NextCreate == Create
SpecCreate == InitCreate /\ [][NextCreate]_vars

(* several requests, one after the other, each run statement by statement
   on the one heap; the caller keeps its three arrays and sets their content
   before each request *)
MaxLog == 3

CallOptions ==
    OptionsOver({<<SysEntry, SlotEntry>>, <<SysEntry>>},
                {<<Turn("user", "a"), AnchorTurn>>},
                {<<>>, <<DepthEntry(1), Pos2Entry("x")>>},
                {NoOption, Message("a")},
                {NoOption})

InitCalls ==
    /\ options \in CallOptions
    /\ heap = CallerHeap(options)
    /\ frame = NoFrame
    /\ messages = <<>>
    /\ inj = NoCall
    /\ finalHistory = <<>>
    /\ pc = "ready"
    /\ calls = 0
    /\ rendered = ""
    /\ returned = <<>>
    /\ created = NoOption

Enter ==
    /\ pc = "ready"
    /\ heap' = EnterStep(heap, frame, options).heap
    /\ frame' = EnterStep(heap, frame, options).frame
    /\ pc' = "framework"
    /\ UNCHANGED <<options, messages, inj, finalHistory, calls, rendered,
                   returned, created>>

Framework ==
    /\ pc = "framework"
    /\ heap' = FrameworkStep([heap |-> heap, frame |-> frame]).heap
    /\ frame' = FrameworkStep([heap |-> heap, frame |-> frame]).frame
    /\ pc' = IF frame'.chatHistoryIndex # -1 THEN "trim" ELSE "log"
    /\ UNCHANGED <<options, messages, inj, finalHistory, calls, rendered,
                   returned, created>>

Trim ==
    /\ pc = "trim"
    /\ heap' = TrimStep([heap |-> heap, frame |-> frame]).heap
    /\ frame' = TrimStep([heap |-> heap, frame |-> frame]).frame
    /\ pc' = "process"
    /\ UNCHANGED <<options, messages, inj, finalHistory, calls, rendered,
                   returned, created>>

Process ==
    /\ pc = "process"
    /\ heap' = ProcessStep([heap |-> heap, frame |-> frame]).heap
    /\ frame' = ProcessStep([heap |-> heap, frame |-> frame]).frame
    /\ pc' = "push"
    /\ UNCHANGED <<options, messages, inj, finalHistory, calls, rendered,
                   returned, created>>

Push ==
    /\ pc = "push"
    /\ heap' = PushStep([heap |-> heap, frame |-> frame]).heap
    /\ frame' = PushStep([heap |-> heap, frame |-> frame]).frame
    /\ pc' = "inject"
    /\ UNCHANGED <<options, messages, inj, finalHistory, calls, rendered,
                   returned, created>>

Inject ==
    /\ pc = "inject"
    /\ heap' = InjectStep([heap |-> heap, frame |-> frame]).heap
    /\ frame' = InjectStep([heap |-> heap, frame |-> frame]).frame
    /\ pc' = "fill"
    /\ UNCHANGED <<options, messages, inj, finalHistory, calls, rendered,
                   returned, created>>

Fill ==
    /\ pc = "fill"
    /\ heap' = FillStep([heap |-> heap, frame |-> frame]).heap
    /\ frame' = FillStep([heap |-> heap, frame |-> frame]).frame
    /\ pc' = "log"
    /\ UNCHANGED <<options, messages, inj, finalHistory, calls, rendered,
                   returned, created>>

(* lines 122-125: the messages array is handed back *)
Return ==
    /\ pc = "log"
    /\ messages' = heap[frame.messages]
    /\ returned' = Append(returned, [options |-> options,
                                     messages |-> messages'])
    /\ calls' = calls + 1
    /\ pc' = "built"
    /\ UNCHANGED <<options, inj, finalHistory, rendered, created, heap,
                   frame>>

(* the caller sets the content of its arrays and asks again *)
NewCall ==
    /\ pc = "built"
    /\ Len(returned) < MaxLog
    /\ options' \in CallOptions
    /\ heap' = [heap EXCEPT ![1] = options'.rFramework,
                            ![2] = options'.dEntries,
                            ![3] = options'.chatHistory]
    /\ pc' = "ready"
    /\ UNCHANGED <<messages, inj, finalHistory, calls, rendered, returned,
                   created, frame>>

NextCalls ==
    \/ Enter \/ Framework \/ Trim \/ Process \/ Push \/ Inject \/ Fill
    \/ Return \/ NewCall

SpecCalls == InitCalls /\ [][NextCalls]_vars

(* the output of buildPrompt handed to messagesToText *)
Serialize ==
    /\ pc = "built"
    /\ rendered' = MessagesToText(messages)
    /\ pc' = "text"
    /\ UNCHANGED <<options, messages, inj, finalHistory, calls, returned,
                 created, heap, frame>>

NextText == Build \/ Serialize
SpecText == InitFrame /\ [][NextText]_vars

(* the array placed in the history slot *)
SlotContent == messages[ChatHistoryIndex(options) + 1].parts

----------------------------------------------------------------------------
(* Vocabulary of the properties *)

IsAnnotation(turn) == Flag(turn, "is_d_entry")

IsConversation(turn) == ~IsAnnotation(turn)

TextOf(turn) == turn.parts[1].text

(* positions (1-based) of the conversation turns of seq, in order *)
ConversationPositions(seq) == {p \in 1..Len(seq) : IsConversation(seq[p])}

(* position in seq of its conversation turn number k (0-based), 0 if none *)
PositionOfTurn(seq, k) ==
    LET hits == {p \in ConversationPositions(seq) :
                    Cardinality({j \in ConversationPositions(seq) : j < p}) = k}
    IN IF hits = {} THEN 0 ELSE CHOOSE p \in hits : TRUE

(* positions of the annotation turns of seq that carry depth d *)
DepthPositions(seq, d) ==
    {p \in 1..Len(seq) :
        IsAnnotation(seq[p]) /\ Has(seq[p], "depth") /\ seq[p].depth = d}

(* indices of the position-4 entries of the call that state depth d *)
EntriesAtDepth(o, d) ==
    {k \in 1..Len(OptDEntries(o)) :
        LET e == OptDEntries(o)[k]
        IN (~Has(e, "position") \/ e.position = 4)
              /\ Has(e, "depth") /\ e.depth = d}

(* the annotation turn at seq[p] was made from entry e *)
MadeFrom(seq, p, e) ==
    IsAnnotation(seq[p]) /\ TextOf(seq[p]) = e.content /\ seq[p].name = e.name

Built == pc = "built"

(* 0-based index of the last turn of the normalized history *)
LastIndex(o) == Len(ProcessedHistory(o)) - 1

----------------------------------------------------------------------------
(* C1: with a new user message the reference is the appended last turn, at
   index r; the annotation turns of the position-4 entries of depth d,
   1 <= d <= r, stand in the slot, once each and in entry order, as the run
   that ends immediately before normalized turn r - d. *)
C1_DepthPlacement ==
    (Built /\ UserMessageGiven(options)) =>
        LET r == LastIndex(options)
            S == SlotContent
        IN \A d \in 1..r :
              LET ks == EntriesAtDepth(options, d)
                  n == Cardinality(ks)
                  q == PositionOfTurn(S, r - d)
              IN /\ q > n
                 /\ S[q] = ProcessedHistory(options)[r - d + 1]
                 /\ DepthPositions(S, d) = (q - n)..(q - 1)
                 /\ \A k \in ks :
                       MadeFrom(S, q - n + Cardinality({j \in ks : j < k}),
                                OptDEntries(options)[k])

(* history [h0, h1] plus the new message as reference h2, one depth-1
   entry: the slot is [h0, annotation, h1, h2] *)
C1_Witness ==
    /\ Built /\ UserMessageGiven(options)
    /\ Len(options.chatHistory) = 2
    /\ Cardinality(EntriesAtDepth(options, 1)) = 1
    /\ Len(SlotContent) >= 4
    /\ IsConversation(SlotContent[1])
    /\ DepthPositions(SlotContent, 1) = {2}
    /\ IsConversation(SlotContent[3])
    /\ SlotContent[4] = Turn("user", options.userMessage)

(* C2: a position-4 entry of depth 0 appears in the slot exactly once,
   immediately after the reference turn and not before it. *)
C2_DepthZeroOnceAfterReference ==
    (Built /\ UserMessageGiven(options)) =>
        LET S == SlotContent
            n == Cardinality(EntriesAtDepth(options, 0))
            q == PositionOfTurn(S, LastIndex(options))
        IN /\ q > 0
           /\ DepthPositions(S, 0) = (q + 1)..(q + n)

(* C3: when no user turn of the normalized history carries the reference
   content, distances are measured from the last index: the reference index
   is the last index, depth 0 lands right after the last turn and depth d
   right before the turn d places before the last one. *)
ReferenceFound(o) ==
    \E i \in 1..Len(ProcessedHistory(o)) :
        /\ ProcessedHistory(o)[i].role = "user"
        /\ TextOf(ProcessedHistory(o)[i]) = BaseMessageOf(o)

C3_ReferenceFallback ==
    (Built /\ ~ReferenceFound(options)
        /\ Len(ProcessedHistory(options)) > 0 /\ Len(OptDEntries(options)) > 0) =>
        LET S == SlotContent
            last == LastIndex(options)
        IN /\ EffectiveBaseIndex(ProcessedHistory(options),
                                 BaseMessageOf(options)) = last
           /\ \A d \in 0..last :
                 LET n == Cardinality(EntriesAtDepth(options, d))
                     q == PositionOfTurn(S, last - d)
                 IN DepthPositions(S, d) =
                       IF d = 0 THEN (q + 1)..(q + n) ELSE (q - n)..(q - 1)

----------------------------------------------------------------------------
(* the conversation turns of seq, annotation turns deleted *)
Conversation(seq) == SelectSeq(seq, IsConversation)

(* the normalized history without the appended new message *)
NormalizedRaw(o) ==
    IF UserMessageGiven(o)
    THEN SubSeq(ProcessedHistory(o), 1, Len(ProcessedHistory(o)) - 1)
    ELSE ProcessedHistory(o)

PositiveWindow(o) == OptMaxHistoryLength(o) > 0

(* C4: with no new message, normalizing the slot content S again under the
   same window gives the normalized history of the raw input, and assembling
   S again with the same entries gives S. *)
C4_RoundTrip ==
    (Built /\ ~Has(options, "userMessage")) =>
        LET S == SlotContent
            again == [options EXCEPT !.chatHistory = S]
        IN /\ ProcessedHistory(again) = ProcessedHistory(options)
           /\ HistoryWithDEntries(again) = S

(* C6 as stated: the slot holds min(L, W) conversation turns, plus one for a
   new user message. *)
C6_WindowCount_AnyHistory ==
    (Built /\ PositiveWindow(options)) =>
        Len(Conversation(SlotContent)) =
            Min(Len(options.chatHistory), OptMaxHistoryLength(options))
            + (IF UserMessageGiven(options) THEN 1 ELSE 0)

(* C6 amended: for a raw history of length L that holds no annotation turn
   and a positive window W, the slot holds min(L, W) conversation turns, plus
   one if a non-empty new user message was supplied. *)
NoStaleAnnotation(o) ==
    \A i \in 1..Len(OptChatHistory(o)) : ~Flag(OptChatHistory(o)[i], "is_d_entry")

C6_WindowCount ==
    (Built /\ PositiveWindow(options) /\ NoStaleAnnotation(options)) =>
        Len(Conversation(SlotContent)) =
            Min(Len(options.chatHistory), OptMaxHistoryLength(options))
            + (IF UserMessageGiven(options) THEN 1 ELSE 0)

(* a history longer than the window, a new message: W + 1 turns *)
C6_Witness ==
    /\ Built /\ NoStaleAnnotation(options) /\ UserMessageGiven(options)
    /\ Has(options, "maxHistoryLength")
    /\ options.maxHistoryLength = 2
    /\ Len(options.chatHistory) = 3
    /\ Len(OptDEntries(options)) > 0
    /\ Len(Conversation(SlotContent)) = 3

(* C7: the normalized history is the last W turns of what is left of the raw
   history once its annotation turns are discarded. *)
C7_StripThenTrim ==
    (Built /\ PositiveWindow(options)) =>
        Conversation(SlotContent) =
            Slice(ProcessHistory(options.chatHistory),
                  0 - OptMaxHistoryLength(options))
            \o (IF UserMessageGiven(options)
                THEN <<Turn("user", options.userMessage)>> ELSE <<>>)

----------------------------------------------------------------------------
(* a caller that stores each slot content as the next call's transcript *)

ChainEntrySets == {<<>>, <<DepthEntry(0)>>, <<DepthEntry(1)>>,
                   <<DepthEntry(1), DepthEntry(0)>>}

ChainMessages == {NoOption, Message("a")}

ChainOptions ==
    OptionsOver({<<SysEntry, SlotEntry>>},
                BSeq({Turn("user", "a"), Turn("assistant", "b")}, 1),
                ChainEntrySets, ChainMessages, {NoOption})

Persist ==
    /\ pc = "built"
    /\ calls < MaxCalls
    /\ \E reply \in {<<>>, <<Turn("assistant", "b")>>},
          d \in ChainEntrySets, m \in ChainMessages :
          options' = [rFramework |-> options.rFramework,
                      chatHistory |-> SlotContent \o reply,
                      dEntries |-> d] @@ m
    /\ pc' = "ready"
    /\ UNCHANGED <<messages, inj, finalHistory, calls, rendered, returned,
                 created, heap, frame>>

Init == InitBuild(ChainOptions)
Next == Build \/ Persist
Spec == Init /\ [][Next]_vars

(* C5: when the transcript of a call is the previous call's slot content,
   every annotation turn of the slot is made from an entry of this call and
   the slot holds no more annotation turns than the call has entries. *)
AnnotationPositions(seq) == {p \in 1..Len(seq) : IsAnnotation(seq[p])}

C5_NoAccumulation ==
    (Built /\ calls >= 2) =>
        LET S == SlotContent
        IN /\ \A p \in AnnotationPositions(S) :
                 \E k \in 1..Len(OptDEntries(options)) :
                    MadeFrom(S, p, OptDEntries(options)[k])
           /\ Cardinality(AnnotationPositions(S)) <= Len(OptDEntries(options))

----------------------------------------------------------------------------
(* C8: a transcript with one marked turn inside the window, one position-2
   and one position-3 entry: the slot holds pos2, anchor, pos3 as three
   consecutive turns. *)
AnchorsInWindow(o) ==
    {i \in 1..Len(TrimmedHistory(o)) : IsAuthorNote(TrimmedHistory(o)[i])}

EntriesAtPosition(dEntries, pos) ==
    {k \in 1..Len(dEntries) :
        Has(dEntries[k], "position") /\ dEntries[k].position = pos}

C8_AnchorEndToEnd ==
    (/\ Built
     /\ Cardinality(AnchorsInWindow(options)) = 1
     /\ Cardinality(EntriesAtPosition(OptDEntries(options), 2)) = 1
     /\ Cardinality(EntriesAtPosition(OptDEntries(options), 3)) = 1) =>
        LET S == SlotContent
            D == OptDEntries(options)
        IN \E p \in 1..(Len(S) - 2) :
              /\ \E k \in EntriesAtPosition(D, 2) : MadeFrom(S, p, D[k])
              /\ IsConversation(S[p + 1])
              /\ TextOf(S[p + 1]) = TextOf(AnchorTurn)
              /\ \E k \in EntriesAtPosition(D, 3) : MadeFrom(S, p + 2, D[k])

----------------------------------------------------------------------------
Inserted == pc = "inserted"

(* the pass over the entries runs: neither argument is empty *)
InjectionRuns == Len(inj.dEntries) > 0 /\ Len(inj.history) > 0

AnchorPositions(seq) == {p \in 1..Len(seq) : IsAuthorNote(seq[p])}

(* the entries of dEntries at position pos, in input order *)
EntriesOfPosition(dEntries, pos) ==
    LET At(e) == Has(e, "position") /\ e.position = pos
    IN SelectSeq(dEntries, At)

(* C9: with an anchor in the sequence, the m position-2 annotation turns
   stand in entry order immediately before the anchor and the n position-3
   annotation turns in entry order immediately after it. *)
C9_AnchorOrdering ==
    (Inserted /\ InjectionRuns /\ AnchorPositions(finalHistory) # {}) =>
        LET a == CHOOSE p \in AnchorPositions(finalHistory) :
                    \A q \in AnchorPositions(finalHistory) : p <= q
            p2 == EntriesOfPosition(inj.dEntries, 2)
            p3 == EntriesOfPosition(inj.dEntries, 3)
            m == Len(p2)
            n == Len(p3)
        IN /\ a > m
           /\ a + n <= Len(finalHistory)
           /\ \A i \in 1..m : MadeFrom(finalHistory, a - m - 1 + i, p2[i])
           /\ \A i \in 1..n : MadeFrom(finalHistory, a + i, p3[i])

(* C10: when the depth-injected sequence holds no anchor turn, no annotation
   turn of position 2 or 3 is in the result, and the result is the
   depth-injected sequence. *)
FixedPositions(seq) ==
    {p \in 1..Len(seq) :
        IsAnnotation(seq[p]) /\ Has(seq[p], "position")
            /\ seq[p].position \in {2, 3}}

C10_MissingAnchor ==
    (Inserted /\ AnchorPositions(inj.history) = {}) =>
        /\ FixedPositions(finalHistory) = {}
        /\ InjectionRuns =>
              finalHistory =
                 DepthInjected(SelectSeq(inj.history, IsNotDEntry),
                               inj.dEntries, inj.baseMessage)

(* no anchor, a position-2 entry and a depth-1 entry: only the depth-1
   annotation is in the result *)
C10_Witness ==
    /\ Inserted
    /\ AnchorPositions(inj.history) = {}
    /\ Len(inj.history) = 2
    /\ Len(Conversation(inj.history)) = 2
    /\ Len(EntriesOfPosition(inj.dEntries, 2)) = 1
    /\ Len(EntriesOfPosition(inj.dEntries, 4)) = 1
    /\ Len(finalHistory) = 3
    /\ FixedPositions(finalHistory) = {}

----------------------------------------------------------------------------
(* a block of the output that is a history slot: its parts are conversation
   turns (or nothing), not a text fragment *)
IsSlotBlock(block) ==
    Len(block.parts) = 0 \/ Has(block.parts[1], "role")

SlotBlocks(msgs) == {i \in 1..Len(msgs) : IsSlotBlock(msgs[i])}

(* 1-based positions of the framework entries flagged isChatHistory *)
FlaggedEntries(o) ==
    {i \in 1..Len(o.rFramework) : Flag(o.rFramework[i], "isChatHistory")}

ConversationPresent(o) == Len(OptChatHistory(o)) > 0 \/ UserMessageGiven(o)

(* C11 as stated: whatever the framework and the conversation, the output
   holds exactly one history-slot block. *)
C11_ExactlyOneSlot_AnyInput ==
    Built => Cardinality(SlotBlocks(messages)) = 1

(* C11 amended: the output holds one history-slot block per framework entry
   flagged isChatHistory; with no flagged entry it holds exactly one, the
   appended one, when the history is non-empty or a non-empty new message is
   given, and none otherwise.  At most one slot block is filled. *)
C11_SlotCount ==
    Built =>
        /\ Cardinality(SlotBlocks(messages)) =
              IF FlaggedEntries(options) # {}
              THEN Cardinality(FlaggedEntries(options))
              ELSE IF ConversationPresent(options) THEN 1 ELSE 0
        /\ Cardinality({i \in SlotBlocks(messages) :
                           Len(messages[i].parts) > 0}) <= 1

(* no flagged entry and a conversation: the one slot is the appended block;
   seen together with the no-conversation case of the same framework *)
C11_Witness ==
    /\ Built
    /\ Len(options.rFramework) = 2
    /\ FlaggedEntries(options) = {}
    /\ ConversationPresent(options)
    /\ SlotBlocks(messages) = {3}
    /\ messages[3].name = "Chat History"
    /\ Len(messages[3].parts) > 0

(* C12: with several flagged entries the conversation is embedded in the
   block of the first one, and in no other block. *)
C12_FirstSlotWins ==
    (Built /\ Cardinality(FlaggedEntries(options)) > 1) =>
        LET first == CHOOSE i \in FlaggedEntries(options) :
                        \A j \in FlaggedEntries(options) : i <= j
        IN /\ messages[first].parts = HistoryWithDEntries(options)
           /\ \A j \in FlaggedEntries(options) \ {first} :
                 messages[j].parts = <<>>

----------------------------------------------------------------------------
(* the reference index as the claims define it: the last user turn of the
   normalized history that carries the reference content, else the last
   index *)
ClaimedReferenceIndex(o) ==
    LET P == ProcessedHistory(o)
        hits == {i \in 1..Len(P) :
                    P[i].role = "user" /\ TextOf(P[i]) = BaseMessageOf(o)}
    IN IF hits = {} THEN Len(P) - 1
       ELSE (CHOOSE i \in hits : \A j \in hits : j <= i) - 1

(* the distances referenceIndex - i over the normalized turns *)
ClaimedDistances(o) ==
    {ClaimedReferenceIndex(o) - i : i \in 0..(Len(ProcessedHistory(o)) - 1)}

Position4Indices(o) ==
    {k \in 1..Len(OptDEntries(o)) :
        ~Has(OptDEntries(o)[k], "position") \/ OptDEntries(o)[k].position = 4}

(* C13: a position-4 entry whose depth is the distance of no normalized turn
   is absent from the slot, and the slot holds at most as many annotation
   turns as there are position-4 entries with a matching depth (no anchor is
   present here, so position-2/3 entries add nothing).  Entries that state
   no depth are counted as matching. *)
C13_NoFabrication ==
    Built =>
        LET S == SlotContent
            D == OptDEntries(options)
            stated == {k \in Position4Indices(options) : Has(D[k], "depth")}
            matching == {k \in stated : D[k].depth \in ClaimedDistances(options)}
            unstated == Position4Indices(options) \ stated
        IN /\ \A k \in stated \ matching :
                 \A p \in 1..Len(S) : ~MadeFrom(S, p, D[k])
           /\ Cardinality(AnnotationPositions(S))
                 <= Cardinality(matching) + Cardinality(unstated)

(* C14: a position-4 (or position-unset) entry with no depth field is placed
   as depth 1: once, in the run of annotation turns that ends immediately
   before the turn one place before the reference turn. *)
C14_DefaultDepthOne ==
    (Built /\ UserMessageGiven(options) /\ LastIndex(options) >= 1) =>
        LET S == SlotContent
            D == OptDEntries(options)
            unstated == {k \in Position4Indices(options) : ~Has(D[k], "depth")}
            U == {p \in AnnotationPositions(S) : ~Has(S[p], "depth")}
            q == PositionOfTurn(S, LastIndex(options) - 1)
        IN /\ Cardinality(U) = Cardinality(unstated)
           /\ \A p \in U :
                 p < q /\ \A j \in (p + 1)..(q - 1) : IsAnnotation(S[j])

----------------------------------------------------------------------------
(* the raw turns that reach the normalized history: the window, annotation
   turns left out *)
RawInWindow(o) ==
    LET W == OptMaxHistoryLength(o)
        H == OptChatHistory(o)
        from == IF Len(H) > W THEN Len(H) - W ELSE 0
        IsRaw(t) == ~Flag(t, "is_d_entry")
    IN SelectSeq(SubSeq(H, from + 1, Len(H)), IsRaw)

(* C15 as stated: a raw user turn stays user, a raw turn of any other role
   becomes model. *)
C15_RoleFolding_OthersToModel ==
    (Built /\ PositiveWindow(options)) =>
        LET N == Conversation(SlotContent)
            raw == RawInWindow(options)
        IN \A i \in 1..Len(raw) :
              N[i].role = IF raw[i].role = "user" THEN "user" ELSE "model"

(* C15 amended: every normalized turn has role exactly user or model; a raw
   turn with role assistant or model becomes model, and a raw turn with any
   other role value (user, system, anything else) becomes user. *)
C15_RoleFolding ==
    (Built /\ PositiveWindow(options)) =>
        LET N == Conversation(SlotContent)
            raw == RawInWindow(options)
        IN /\ Len(N) = Len(raw) + (IF UserMessageGiven(options) THEN 1 ELSE 0)
           /\ \A i \in 1..Len(N) : N[i].role \in {"user", "model"}
           /\ \A i \in 1..Len(raw) :
                 N[i].role = IF raw[i].role \in {"assistant", "model"}
                             THEN "model" ELSE "user"

(* a system turn, an assistant turn and a model turn, normalized to user,
   model, model *)
C15_Witness ==
    /\ Built /\ PositiveWindow(options)
    /\ Len(RawInWindow(options)) = 3
    /\ RawInWindow(options)[1].role = "system"
    /\ RawInWindow(options)[2].role = "assistant"
    /\ RawInWindow(options)[3].role = "model"
    /\ Conversation(SlotContent)[1].role = "user"
    /\ Conversation(SlotContent)[2].role = "model"
    /\ Conversation(SlotContent)[3].role = "model"

----------------------------------------------------------------------------
Serialized == pc = "text"

(* str holds sub as a substring *)
Contains(str, sub) ==
    \E i \in 1..(Len(str) - Len(sub) + 1) :
        SubSeq(str, i, i + Len(sub) - 1) = sub

(* the labels of a user turn and of a model turn; they stand for the two
   prefixes of the code's chat-history branch, the first of which is not
   ASCII *)
UserLabel == "user: "
ModelLabel == "AI: "

LabelledTurn(turn) ==
    (IF turn.role = "user" THEN UserLabel ELSE ModelLabel) \o TextOf(turn)

(* C16: the slot block is rendered as its turns, each as label and content,
   joined by blank lines; a slot with a non-empty turn puts that text in the
   result. *)
C16_SlotRendering ==
    (/\ Serialized
     /\ ChatHistoryIndex(options) # -1
     /\ \E p \in 1..Len(SlotContent) : ~IsBlank(TextOf(SlotContent[p]))) =>
        Contains(rendered,
                 Join([p \in 1..Len(SlotContent) |->
                          LabelledTurn(SlotContent[p])], "\n\n"))

(* C17: each non-slot block is rendered as the raw content of its framework
   entry, the blocks whose rendered text is blank are left out, and the
   others are joined in order by a blank line; the empty sequence gives the
   empty string. *)
RenderedPerBlock ==
    [i \in 1..Len(messages) |->
        IF i <= Len(options.rFramework)
              /\ ~Flag(options.rFramework[i], "isChatHistory")
        THEN options.rFramework[i].content
        ELSE RenderBlock(messages[i])]

C17_OmitAndJoin ==
    Serialized =>
        /\ rendered = Join(SelectSeq(RenderedPerBlock, IsNotBlank), "\n\n")
        /\ messages = <<>> => rendered = ""

(* a blank block between two instruction blocks is left out and the two
   contents are joined by a blank line *)
C17_Witness ==
    /\ Serialized
    /\ Len(options.rFramework) = 3
    /\ FlaggedEntries(options) = {}
    /\ options.rFramework[1].content = "instructions"
    /\ IsBlank(options.rFramework[2].content)
    /\ options.rFramework[3].content = "instructions"
    /\ rendered = "instructions\n\ninstructions"

----------------------------------------------------------------------------
(* C18: an entry whose position is outside 0..4 makes the call fail; no
   call with such an entry returns a sequence, the entry dropped or placed. *)
OutOfRange(entry) == Has(entry, "position") /\ entry.position \notin 0..4

C18_PositionValidation ==
    ~(/\ Built
      /\ \E k \in 1..Len(options.dEntries) : OutOfRange(options.dEntries[k]))

(* C19: with an empty history and no new message the call returns one
   well-formed block per framework entry; every slot block is empty, even
   with annotation entries pending; with an empty framework as well the
   result is the empty sequence. *)
EmptyConversation(o) == Len(OptChatHistory(o)) = 0 /\ ~UserMessageGiven(o)

WellFormedBlock(block) ==
    /\ {"name", "role", "parts"} \subseteq DOMAIN block
    /\ block.role # ""
    /\ DOMAIN block.parts = 1..Len(block.parts)

C19_EmptyInputs ==
    (Built /\ EmptyConversation(options)) =>
        /\ Len(messages) = Len(options.rFramework)
        /\ \A i \in 1..Len(messages) : WellFormedBlock(messages[i])
        /\ \A i \in FlaggedEntries(options) : messages[i].parts = <<>>
        /\ Len(options.rFramework) = 0 => messages = <<>>

(* an explicit slot, no conversation, an annotation entry pending: the slot
   stays empty *)
C19_Witness ==
    /\ Built
    /\ EmptyConversation(options)
    /\ Len(options.dEntries) > 0
    /\ FlaggedEntries(options) # {}
    /\ ChatHistoryIndex(options) # -1
    /\ SlotContent = <<>>

(* C20: the worked example. History [user hi, model hello], new message
   "how are you", one reminder at depth 1. *)
FixtureCall ==
    [rFramework |-> <<SysEntry, SlotEntry>>,
     chatHistory |-> <<Turn("user", "hi"), Turn("model", "hello")>>,
     dEntries |-> <<Reminder(1)>>,
     userMessage |-> "how are you"]

SlotTexts == [p \in 1..Len(SlotContent) |-> TextOf(SlotContent[p])]

SlotAnnotations == {p \in 1..Len(SlotContent) : IsAnnotation(SlotContent[p])}

(* as stated: the reminder comes first, before "hi" *)
C20_Fixture_ReminderFirst ==
    (Built /\ options = FixtureCall) =>
        /\ Len(messages) = 2
        /\ SlotTexts = <<"reminder", "hi", "hello", "how are you">>

(* as the code has it: the reminder sits one conversation turn before the
   new message, between "hi" and "hello", and is the only annotation turn *)
C20_Fixture ==
    (Built /\ options = FixtureCall) =>
        /\ Len(messages) = 2
        /\ messages[1].parts = <<[text |-> "instructions"]>>
        /\ SlotTexts = <<"hi", "reminder", "hello", "how are you">>
        /\ SlotAnnotations = {2}

C20_Witness ==
    /\ Built
    /\ options = FixtureCall
    /\ Len(SlotContent) = 4
    /\ TextOf(SlotContent[2]) = "reminder"

----------------------------------------------------------------------------
(* C21: the output of buildPrompt is a function of its arguments: every
   completed call returned what buildPrompt gives for its arguments alone,
   so any two calls with equal arguments returned equal sequences, whatever
   the calls before or between them left on the heap and in the frame. *)
C21_Determinism ==
    /\ \A i \in 1..Len(returned) :
          returned[i].messages = BuildPrompt(returned[i].options)
    /\ \A i, j \in 1..Len(returned) :
          returned[i].options = returned[j].options =>
              returned[i].messages = returned[j].messages

(* the first and the third call had equal arguments, the second had others
   and another framework, and the output holds an injected annotation *)
C21_Witness ==
    /\ Len(returned) = 3
    /\ returned[1].options = returned[3].options
    /\ returned[2].options.rFramework # returned[1].options.rFramework
    /\ returned[1].messages = returned[3].messages
    /\ returned[2].messages # returned[1].messages
    /\ Len(returned[3].options.dEntries) > 0
    /\ UserMessageGiven(returned[3].options)
    /\ Len(returned[3].messages[2].parts) = 4

(* C22: from the moment the call is entered to its return, the caller's
   rFramework, dEntries and chatHistory arrays hold what the caller passed:
   same length, same order, same turns and entries. *)
CallUnderWay ==
    pc \in {"framework", "trim", "process", "push", "inject", "fill", "log",
            "built"}

C22_InputsReadOnly ==
    (CallUnderWay /\ Len(heap) >= 3) =>
        /\ heap[1] = options.rFramework
        /\ heap[2] = options.dEntries
        /\ heap[3] = options.chatHistory

(* a call that has returned, having pushed the new user message and run the
   injection on a transcript with a marked turn and with a position-2 entry
   pending; the slot block names the injected array *)
C22_Witness ==
    /\ Built
    /\ Len(heap) >= 3
    /\ UserMessageGiven(options)
    /\ \E p \in 1..Len(heap[3]) : IsAuthorNote(heap[3][p])
    /\ \E k \in 1..Len(heap[2]) :
           Has(heap[2][k], "position") /\ heap[2][k].position = 2
    /\ frame.processedHistory > 3
    /\ frame.historyWithDEntries > frame.processedHistory
    /\ Len(heap[frame.processedHistory]) = Len(heap[3]) + 1
    /\ Len(heap[frame.historyWithDEntries]) > Len(heap[frame.processedHistory])
    /\ heap[3] = options.chatHistory

----------------------------------------------------------------------------
(* C23: with no framework entry flagged isChatHistory, a non-empty history
   or a new user message makes the output end with one appended block named
   "Chat History" that holds the conversation, after one block per framework
   entry; with neither, the output holds the framework blocks only and no
   slot. *)
C23_SlotSynthesis ==
    (Built /\ FlaggedEntries(options) = {}) =>
        LET n == Len(options.rFramework)
        IN IF ConversationPresent(options)
           THEN /\ Len(messages) = n + 1
                /\ SlotBlocks(messages) = {n + 1}
                /\ messages[n + 1].name = "Chat History"
                /\ messages[n + 1].parts = HistoryWithDEntries(options)
                /\ Conversation(messages[n + 1].parts)
                      = ProcessedHistory(options)
                /\ Len(messages[n + 1].parts) > 0
           ELSE /\ Len(messages) = n
                /\ SlotBlocks(messages) = {}

(* an empty framework and a new message only: the output is the appended
   slot alone, holding the new message *)
C23_Witness ==
    /\ Built
    /\ Len(options.rFramework) = 0
    /\ Len(options.chatHistory) = 0
    /\ UserMessageGiven(options)
    /\ Len(messages) = 1
    /\ messages[1].name = "Chat History"
    /\ messages[1].parts = <<Turn("user", options.userMessage)>>

----------------------------------------------------------------------------
(* C24: createDEntry fills position with 4, depth with 1, constant with true
   and role with user only where the field is absent; every field that was
   supplied, position 0, depth 0 and constant false included, is returned
   as supplied. *)
Defaulted(o, f, default) == IF Has(o, f) THEN o[f] ELSE default

C24_EntryDefaults ==
    pc = "created" =>
        /\ created.position = Defaulted(options, "position", 4)
        /\ created.depth = Defaulted(options, "depth", 1)
        /\ created.constant = Defaulted(options, "constant", TRUE)
        /\ created.role = Defaulted(options, "role", "user")
        /\ created.name = options.name
        /\ created.content = options.content

----------------------------------------------------------------------------
(* C25: when two or more position-4 entries state the same depth d and a
   turn of the normalized history lies at distance d from the reference,
   their annotation turns stand in the slot as one contiguous run, in the
   order the entries have in dEntries. *)
RankIn(ks, k) == Cardinality({j \in ks : j < k})

C25_SameDepthGrouping ==
    Built =>
        \A d \in ClaimedDistances(options) :
            LET S == SlotContent
                ks == EntriesAtDepth(options, d)
                n == Cardinality(ks)
            IN n >= 2 =>
                  \E q \in 1..Len(S) :
                      /\ DepthPositions(S, d) = q..(q + n - 1)
                      /\ \A k \in ks :
                            MadeFrom(S, q + RankIn(ks, k),
                                     OptDEntries(options)[k])

----------------------------------------------------------------------------
(* C26: the slot content with every annotation turn deleted is exactly the
   normalized history, the trimmed and normalized raw turns followed by the
   new user message if there is one: injection removes, duplicates and
   reorders no conversation turn. *)
C26_OrderPreservation ==
    (Built /\ ChatHistoryIndex(options) # -1) =>
        /\ Conversation(SlotContent) = ProcessedHistory(options)
        /\ Conversation(SlotContent) =
              ProcessHistory(TrimmedHistory(options))
              \o (IF UserMessageGiven(options)
                  THEN <<Turn("user", options.userMessage)>> ELSE <<>>)

(* three turns in the window, a new message, annotations before and after
   the reference: the four conversation turns in order *)
C26_Witness ==
    /\ Built
    /\ UserMessageGiven(options)
    /\ Len(options.chatHistory) = 3
    /\ ~Has(options, "maxHistoryLength")
    /\ NoStaleAnnotation(options)
    /\ \A p \in 1..3 : Has(options.chatHistory[p], "parts")
    /\ Len(OptDEntries(options)) = 2
    /\ Len(SlotContent) > 4
    /\ Len(Conversation(SlotContent)) = 4
    /\ \A p \in 1..3 :
           TextOf(Conversation(SlotContent)[p])
              = TextOf(options.chatHistory[p])
    /\ TextOf(Conversation(SlotContent)[4]) = options.userMessage

----------------------------------------------------------------------------
(* C27: the output holds one block per framework entry, in framework order,
   and one more at the end only when a slot is synthesized; the block of a
   non-slot entry has the entry's name, one part holding the entry's
   content, the entry's identifier and the entry's role (user when the entry
   states none); the block of a flagged entry is a slot block at the entry's
   index. *)
SlotSynthesized(o) == FlaggedEntries(o) = {} /\ ConversationPresent(o)

C27_ShellShape ==
    Built =>
        LET n == Len(options.rFramework)
        IN /\ Len(messages) = n + (IF SlotSynthesized(options) THEN 1 ELSE 0)
           /\ \A i \in 1..n :
                 LET e == options.rFramework[i]
                     b == messages[i]
                 IN /\ b.name = e.name
                    /\ Has(b, "identifier") = Has(e, "identifier")
                    /\ Has(e, "identifier") => b.identifier = e.identifier
                    /\ IF Flag(e, "isChatHistory")
                       THEN IsSlotBlock(b)
                       ELSE /\ b.parts = <<[text |-> e.content]>>
                            /\ b.role = Defaulted(e, "role", "user")

(* instructions, a block with an identifier and no role, then the slot *)
C27_Witness ==
    /\ Built
    /\ Len(options.rFramework) = 3
    /\ options.rFramework[1] = SysEntry
    /\ Has(options.rFramework[2], "identifier")
    /\ ~Has(options.rFramework[2], "role")
    /\ options.rFramework[3] = SlotEntry
    /\ Len(messages) = 3
    /\ messages[2].identifier = "b"
    /\ messages[2].role = "user"
    /\ SlotBlocks(messages) = {3}
    /\ Len(messages[3].parts) > 0

----------------------------------------------------------------------------
(* C28: with a new user message the reference is the appended last turn of
   the normalized history, also when earlier user turns carry the same
   text: every annotation turn of depth d >= 1 in the slot has exactly
   r - d conversation turns before it, r the last index. *)
TurnsBefore(seq, p) == Cardinality({j \in ConversationPositions(seq) : j < p})

EarlierEqualTurns(o) ==
    {i \in 1..Len(NormalizedRaw(o)) :
        NormalizedRaw(o)[i].role = "user"
            /\ TextOf(NormalizedRaw(o)[i]) = o.userMessage}

C28_ReferenceIsLast ==
    (Built /\ UserMessageGiven(options)) =>
        LET S == SlotContent
            r == LastIndex(options)
        IN /\ BaseMessageIndex(ProcessedHistory(options),
                               BaseMessageOf(options)) = r
           /\ ProcessedHistory(options)[r + 1]
                 = Turn("user", options.userMessage)
           /\ \A p \in 1..Len(S) :
                 (IsAnnotation(S[p]) /\ Has(S[p], "depth") /\ S[p].depth >= 1)
                    => TurnsBefore(S, p) = r - S[p].depth

(* two earlier user turns with the text of the new message; the depth-1
   annotation stands before the last turn of the history, three turns in *)
C28_Witness ==
    /\ Built
    /\ UserMessageGiven(options)
    /\ Len(options.chatHistory) = 3
    /\ Cardinality(EarlierEqualTurns(options)) >= 2
    /\ options.chatHistory[3].role = "user"
    /\ options.dEntries = <<DepthEntry(1)>>
    /\ Len(SlotContent) = 5
    /\ IsAnnotation(SlotContent[3])
    /\ SlotContent[5] = Turn("user", options.userMessage)

----------------------------------------------------------------------------
(* C29: an entry of position 0 or 1, and a position-4 entry of negative
   depth, never has an annotation turn in the slot, whatever the history,
   the marked turn and the new message. *)
Unplaceable(e) ==
    \/ Has(e, "position") /\ e.position \in {0, 1}
    \/ IsPosition4(e) /\ Has(e, "depth") /\ e.depth < 0

C29_UnplaceableNeverSurface ==
    (Built /\ ChatHistoryIndex(options) # -1) =>
        \A k \in 1..Len(options.dEntries) :
            Unplaceable(options.dEntries[k]) =>
                \A p \in 1..Len(SlotContent) :
                    ~MadeFrom(SlotContent, p, options.dEntries[k])

----------------------------------------------------------------------------
(* C30: a call whose userMessage is the empty string returns what the same
   call without userMessage returns: no user turn is appended to the
   normalized history, and with no flagged entry and an empty history no
   slot is synthesized. *)
EmptyMessage(o) == Has(o, "userMessage") /\ o.userMessage = ""

WithoutMessage(o) == [f \in DOMAIN o \ {"userMessage"} |-> o[f]]

C30_EmptyMessageIsAbsent ==
    (Built /\ EmptyMessage(options)) =>
        /\ messages = BuildPrompt(WithoutMessage(options))
        /\ ChatHistoryIndex(options) # -1 =>
               Conversation(SlotContent)
                  = ProcessHistory(TrimmedHistory(options))
        /\ (FlaggedEntries(options) = {} /\ Len(options.chatHistory) = 0) =>
               /\ Len(messages) = Len(options.rFramework)
               /\ SlotBlocks(messages) = {}

(* an explicit slot, one turn of history, an empty new message: the slot
   holds that turn alone *)
C30_Witness ==
    /\ Built
    /\ EmptyMessage(options)
    /\ FlaggedEntries(options) # {}
    /\ Len(options.chatHistory) = 1
    /\ Len(options.dEntries) = 0
    /\ Len(SlotContent) = 1
    /\ TextOf(SlotContent[1]) = TextOf(options.chatHistory[1])

====
